---- MODULE Spec2Model ----
(***************************************************************************)
(* Model of src/utils/calculator.py: the Monte Carlo session simulator     *)
(* (simulate_rounds), the staking-strategy selector                        *)
(* (adjust_bet_for_strategy), the single-round simulator (simulate_round)  *)
(* and the risk-of-ruin estimate (risk_of_ruin_simulation).                *)
(*                                                                         *)
(* Money is counted in integer units; every bet amount is a multiple of    *)
(* Unit = 10, so that base_bet * 0.1 is an integer.  The comparison        *)
(* np.random.random() > crash_prob is a nondeterministic boolean draw.     *)
(* Quotients (win_rate, roi, the ruin percentage) are kept as fractions    *)
(* [num, den]; a Python division by zero raises ZeroDivisionError.         *)
(*                                                                         *)
(* A probability x (a float in [0, 1]) is kept as its survival exponent    *)
(* -log2(1 - x) in thousandths of a bit: 0 is 0.0, and since a double has  *)
(* a 53-bit significand and rounds to nearest-even, 1 - 2^-y is exactly    *)
(* 1.0 from y = 54 on.  The order of probabilities is the order of their   *)
(* exponents.  A house edge is counted in tenths of a percent and a        *)
(* multiplier handed to calculate_crash_probability by its binary          *)
(* logarithm in thousandths.                                               *)
(***************************************************************************)
EXTENDS Integers, Sequences, FiniteSets, TLC

\* ------------------------------------------------------------------ bounds
MaxSims == 2
MaxRounds == 4
MaxBankrollSteps == 4
MaxWins == 10
Unit == 10

\* ------------------------------------------------------------ input domains
FixedCashout == "Fixed Cash-out"
Martingale == "Martingale"
Fibonacci == "Fibonacci"
DAlembert == "D'Alembert"
Strategies == {FixedCashout, Martingale, Fibonacci, DAlembert}

NumSimulations == -1 .. MaxSims
NumRounds == -1 .. MaxRounds
BetAmounts == {0, Unit, 2 * Unit}
Multipliers == {1, 2, 3}
InitialBankrolls == {0} \cup {5 * k : k \in 1 .. MaxBankrollSteps}
ArgBankrolls == {-5, 0, 1} \cup {5 * k : k \in 1 .. MaxBankrollSteps}

VARIABLES
    call,               \* the function of calculator.py the caller invokes
    num_simulations, num_rounds, bet_amount, target_multiplier,
    initial_bankroll, strategy,            \* its arguments
    pc,                 \* position in simulate_rounds / the direct call
    sim, round_num, bankroll, max_bankroll, min_bankroll, wins,
    current_bet, results, err,
    hist,               \* history: bankroll at session start and after each round
    bets,               \* history: current_bet of each round of the session
    outcomes,           \* history: won of each round of the session
    args, ret,          \* arguments and return value of a direct call
    r_pc, r_sim, r_round, r_bankroll, crashed, ruins, r_result, r_err

params == <<call, num_simulations, num_rounds, bet_amount, target_multiplier,
            initial_bankroll, strategy>>
simvars == <<pc, sim, round_num, bankroll, max_bankroll, min_bankroll, wins,
             current_bet, results, err, hist, bets, outcomes>>
directvars == <<args, ret>>
ruinvars == <<r_pc, r_sim, r_round, r_bankroll, crashed, ruins, r_result, r_err>>
vars == <<params, simvars, ruinvars, directvars>>

\* ----------------------------------------------------------------- helpers
Min(a, b) == IF a <= b THEN a ELSE b
Max(a, b) == IF a >= b THEN a ELSE b

\* Python's x / y for a non-zero y, kept exact
Frac(n, d) == [num |-> n, den |-> d]

\* base_bet * 0.1 (base_bet is a multiple of Unit)
Tenth(base_bet) == base_bet \div 10

\* exact arithmetic on fractions with a positive denominator
RatAdd(a, b) == Frac(a.num * b.den + b.num * a.den, a.den * b.den)
RatSub(a, b) == Frac(a.num * b.den - b.num * a.den, a.den * b.den)
RatMul(a, b) == Frac(a.num * b.num, a.den * b.den)
\* a / b for b > 0
RatDiv(a, b) == Frac(a.num * b.den, a.den * b.num)
RatLeq(a, b) == a.num * b.den <= b.num * a.den
RatLess(a, b) == a.num * b.den < b.num * a.den
RatEq(a, b) == a.num * b.den = b.num * a.den
\* Python's min(a, b) and max(a, b): the first argument wins a tie
RatMin(a, b) == IF RatLess(b, a) THEN b ELSE a
RatMax(a, b) == IF RatLess(a, b) THEN b ELSE a
RatZero == Frac(0, 1)
RatOne == Frac(1, 1)

fib_sequence == <<1, 1, 2, 3, 5, 8, 13, 21, 34, 55>>

\* ------------------------------------------------- adjust_bet_for_strategy
\* variant: the progression strategies forget the clamp to the bankroll
AdjustBetUnclamped(strat, base_bet, bank, w, rnd) ==
    IF bank <= 0 THEN 0
    ELSE IF strat = FixedCashout THEN Min(base_bet, bank)
    ELSE IF strat = Martingale THEN
        IF rnd = 0 THEN Min(base_bet, bank)
        ELSE base_bet * (2 ^ w)
    ELSE IF strat = Fibonacci THEN
        LET idx == Min(w % 10, Len(fib_sequence) - 1)
        IN  base_bet * fib_sequence[idx + 1]
    ELSE IF strat = DAlembert THEN
        LET adjustment == (w - (rnd - w)) * base_bet
        IN  Max(base_bet + adjustment, Tenth(base_bet))
    ELSE Min(base_bet, bank)

\* variant: Martingale doubles with the round index instead of the wins
AdjustBetMartingaleByRound(strat, base_bet, bank, w, rnd) ==
    IF bank <= 0 THEN 0
    ELSE IF strat = FixedCashout THEN Min(base_bet, bank)
    ELSE IF strat = Martingale THEN
        IF rnd = 0 THEN Min(base_bet, bank)
        ELSE Min(base_bet * (2 ^ rnd), bank)
    ELSE IF strat = Fibonacci THEN
        LET idx == Min(w % 10, Len(fib_sequence) - 1)
        IN  Min(base_bet * fib_sequence[idx + 1], bank)
    ELSE IF strat = DAlembert THEN
        LET adjustment == (w - (rnd - w)) * base_bet
        IN  Min(Max(base_bet + adjustment, Tenth(base_bet)), bank)
    ELSE Min(base_bet, bank)

\* variant: D'Alembert as the comment in the code words it, the bet raised
\* after a loss and lowered after a win
AdjustBetDAlembertInverted(strat, base_bet, bank, w, rnd) ==
    IF bank <= 0 THEN 0
    ELSE IF strat = FixedCashout THEN Min(base_bet, bank)
    ELSE IF strat = Martingale THEN
        IF rnd = 0 THEN Min(base_bet, bank)
        ELSE Min(base_bet * (2 ^ w), bank)
    ELSE IF strat = Fibonacci THEN
        LET idx == Min(w % 10, Len(fib_sequence) - 1)
        IN  Min(base_bet * fib_sequence[idx + 1], bank)
    ELSE IF strat = DAlembert THEN
        LET adjustment == ((rnd - w) - w) * base_bet
        IN  Min(Max(base_bet + adjustment, Tenth(base_bet)), bank)
    ELSE Min(base_bet, bank)

AdjustBet(strat, base_bet, bank, w, rnd) ==
    IF bank <= 0 THEN 0
    ELSE IF strat = FixedCashout THEN Min(base_bet, bank)
    ELSE IF strat = Martingale THEN
        IF rnd = 0 THEN Min(base_bet, bank)
        ELSE Min(base_bet * (2 ^ w), bank)
    ELSE IF strat = Fibonacci THEN
        LET idx == Min(w % 10, Len(fib_sequence) - 1)
        IN  Min(base_bet * fib_sequence[idx + 1], bank)
    ELSE IF strat = DAlembert THEN
        LET adjustment == (w - (rnd - w)) * base_bet
        IN  Min(Max(base_bet + adjustment, Tenth(base_bet)), bank)
    ELSE Min(base_bet, bank)

\* ------------------------------------------------ calculate_crash_probability
SignificandBits == 53
MilliBits == 1000
\* the float 1.0 as a survival exponent
ProbOne == (SignificandBits + 1) * MilliBits
\* the largest value of np.random.random(), 1 - 2^-53
MaxRandom == SignificandBits * MilliBits

\* the float 1 - 2^(-y / 1000)
OneMinusPow2(y) == IF y >= ProbOne THEN ProbOne ELSE y

\* max(0.1, min(house_edge, 10.0)), in tenths of a percent
ClampHouseEdge(house_edge) == Max(1, Min(house_edge, 100))

\* k = 1 - (house_edge / 100) / ln(2) in 1/10000; 1 / ln(2) = 1.4427
KParameter(house_edge) == 10000 - (house_edge * 14427) \div 1000

\* log2 of the multipliers the simulations use, in thousandths
Log2Milli(mult) == CASE mult = 1 -> 0 [] mult = 2 -> 1000 [] mult = 3 -> 1585

\* variant: the house edge is used as given, without the clamp
CrashProbabilityUnclamped(house_edge, log2_multiplier) ==
    LET k == KParameter(house_edge)
    IN  IF log2_multiplier <= 0 THEN 0
        ELSE OneMinusPow2((k * log2_multiplier) \div 10000)

\* multiplier ** (-k) = 2^(-k * log2(multiplier))
CrashProbability(house_edge, log2_multiplier) ==
    LET k == KParameter(ClampHouseEdge(house_edge))
    IN  IF log2_multiplier <= 0 THEN 0
        ELSE OneMinusPow2((k * log2_multiplier) \div 10000)

\* ---------------------------------------------------------- simulate_round
\* draw stands for np.random.random() > crash_prob; draws is the number of
\* values taken from the random source
\* variant: a bet of the whole bankroll is skipped as well
SimulateRoundSkipsAllIn(bet, mult, bank, draw) ==
    IF bank <= bet THEN [bankroll |-> bank, won |-> FALSE, draws |-> 0]
    ELSE IF draw THEN [bankroll |-> bank + bet * (mult - 1), won |-> TRUE, draws |-> 1]
    ELSE [bankroll |-> bank - bet, won |-> FALSE, draws |-> 1]

\* variant: a lost round costs the payout instead of the stake
SimulateRoundLosesPayout(bet, mult, bank, draw) ==
    IF bank < bet THEN [bankroll |-> bank, won |-> FALSE, draws |-> 0]
    ELSE IF draw THEN [bankroll |-> bank + bet * (mult - 1), won |-> TRUE, draws |-> 1]
    ELSE [bankroll |-> bank - bet * mult, won |-> FALSE, draws |-> 1]

SimulateRound(bet, mult, bank, draw) ==
    IF bank < bet THEN [bankroll |-> bank, won |-> FALSE, draws |-> 0]
    ELSE IF draw THEN [bankroll |-> bank + bet * (mult - 1), won |-> TRUE, draws |-> 1]
    ELSE [bankroll |-> bank - bet, won |-> FALSE, draws |-> 1]

\* ---------------------------------------------- risk_of_ruin_simulation round
RuinRoundBankroll(bet, mult, bank, draw) ==
    IF draw THEN bank + bet * (mult - 1) ELSE bank - bet

\* --------------------------------------------------------- kelly_criterion
\* variant: the Kelly fraction is returned without the cap to [0, 1]
KellyUncapped(success_prob, win_multiplier) ==
    LET b == win_multiplier
        p == success_prob
        q == RatSub(RatOne, p)
    IN  IF RatLeq(b, RatZero) \/ RatLeq(p, RatZero) THEN RatZero
        ELSE RatDiv(RatSub(RatMul(p, b), q), b)

KellyCriterion(success_prob, win_multiplier) ==
    LET b == win_multiplier
        p == success_prob
        q == RatSub(RatOne, p)
    IN  IF RatLeq(b, RatZero) \/ RatLeq(p, RatZero) THEN RatZero
        ELSE LET kelly == RatDiv(RatSub(RatMul(p, b), q), b)
             IN  RatMax(RatZero, RatMin(kelly, RatOne))

\* -------------------------------------------------------------------- Init
InitRuinIdle ==
    /\ r_pc = "idle" /\ r_sim = 0 /\ r_round = 0 /\ r_bankroll = 0
    /\ crashed = FALSE /\ ruins = 0 /\ r_result = Frac(0, 1) /\ r_err = ""

InitSimLocals ==
    /\ sim = 0 /\ round_num = 0 /\ bankroll = 0 /\ max_bankroll = 0
    /\ min_bankroll = 0 /\ wins = 0 /\ current_bet = 0
    /\ results = <<>> /\ err = "" /\ hist = <<>>
    /\ bets = <<>> /\ outcomes = <<>>

\* no direct call of a pure function is under way
InitNoDirect ==
    /\ args = [none |-> TRUE]
    /\ ret = [none |-> TRUE]

InitParams ==
    /\ num_simulations \in NumSimulations
    /\ num_rounds \in NumRounds
    /\ bet_amount \in BetAmounts
    /\ target_multiplier \in Multipliers
    /\ initial_bankroll \in InitialBankrolls

InitSimulateRounds ==
    /\ call = "simulate_rounds"
    /\ InitParams
    /\ strategy \in Strategies
    /\ pc = "sim"
    /\ InitSimLocals
    /\ InitRuinIdle
    /\ InitNoDirect

InitRiskOfRuin ==
    /\ call = "risk_of_ruin_simulation"
    /\ InitParams
    /\ strategy = FixedCashout
    /\ pc = "idle"
    /\ InitSimLocals
    /\ InitNoDirect
    /\ r_pc = "sim" /\ r_sim = 0 /\ r_round = 0 /\ r_bankroll = 0
    /\ crashed = FALSE /\ ruins = 0 /\ r_result = Frac(0, 1) /\ r_err = ""

\* a direct call adjust_bet_for_strategy(strategy, bet_amount, bankroll, wins, round_num)
InitAdjustBet ==
    /\ call = "adjust_bet_for_strategy"
    /\ num_simulations = 0 /\ num_rounds = 0
    /\ target_multiplier = 2 /\ initial_bankroll = 0
    /\ bet_amount \in BetAmounts
    /\ strategy \in Strategies \cup {"Other"}
    /\ bankroll \in ArgBankrolls
    /\ wins \in 0 .. MaxWins
    /\ round_num \in 0 .. MaxRounds
    /\ pc = "call"
    /\ sim = 0 /\ max_bankroll = 0 /\ min_bankroll = 0 /\ current_bet = 0
    /\ results = <<>> /\ err = "" /\ hist = <<>>
    /\ bets = <<>> /\ outcomes = <<>>
    /\ InitRuinIdle
    /\ InitNoDirect

\* a direct call of a pure function: simulate_rounds and
\* risk_of_ruin_simulation are not running
InitDirectIdle ==
    /\ num_simulations = 0 /\ num_rounds = 0 /\ bet_amount = 0
    /\ target_multiplier = 2 /\ initial_bankroll = 0
    /\ strategy = FixedCashout
    /\ pc = "call"
    /\ InitSimLocals
    /\ InitRuinIdle

SuccessProbs == {Frac(n, 4) : n \in -1 .. 5}
WinMultipliers == {Frac(n, 2) : n \in -1 .. 6} \cup {Frac(99, 1)}

\* a direct call kelly_criterion(success_prob, win_multiplier)
InitKelly ==
    /\ call = "kelly_criterion"
    /\ InitDirectIdle
    /\ args \in [success_prob : SuccessProbs, win_multiplier : WinMultipliers]
    /\ ret = [none |-> TRUE]

\* house edges in tenths of a percent, inside and outside [0.1, 10.0]
HouseEdges == {-10, 0, 1, 10, 50, 100, 150, 1000}
\* multipliers 2^j, and the multipliers the simulations use
MultiplierExponents == {-1, 0, 1, 2, 7, 53, 54, 55, 64, 100}
MultiplierLogs ==
    {j * MilliBits : j \in MultiplierExponents} \cup {Log2Milli(m) : m \in Multipliers}

\* a direct call calculate_crash_probability(house_edge, multiplier)
InitCrashProbability ==
    /\ call = "calculate_crash_probability"
    /\ InitDirectIdle
    /\ args \in [house_edge : HouseEdges, log2_multiplier : MultiplierLogs]
    /\ ret = [none |-> TRUE]

\* a direct call simulate_round(bet_amount, target_multiplier, house_edge,
\* current_bankroll); next_random is the value np.random.random() returns next
InitSimulateRound ==
    /\ call = "simulate_round"
    /\ InitDirectIdle
    /\ \E b \in BetAmounts, m \in Multipliers, e \in HouseEdges, c \in ArgBankrolls :
          \E u \in {0, MaxRandom, CrashProbability(e, Log2Milli(m)),
                     CrashProbability(e, Log2Milli(m)) + 1} :
             args = [bet_amount |-> b, target_multiplier |-> m, house_edge |-> e,
                     current_bankroll |-> c, next_random |-> u]
    /\ ret = [none |-> TRUE]

Init ==
    \/ InitSimulateRounds
    \/ InitRiskOfRuin
    \/ InitAdjustBet
    \/ InitKelly
    \/ InitCrashProbability
    \/ InitSimulateRound

\* --------------------------------------------------------- simulate_rounds
\* variant: the peak is initialised to 0 instead of the initial bankroll
StartSessionCoreZeroPeak ==
    /\ pc = "sim"
    /\ sim < num_simulations
    /\ bankroll' = initial_bankroll
    /\ max_bankroll' = 0
    /\ min_bankroll' = initial_bankroll
    /\ wins' = 0
    /\ round_num' = 0
    /\ hist' = <<initial_bankroll>>
    /\ bets' = <<>>
    /\ outcomes' = <<>>
    /\ pc' = "round"
    /\ UNCHANGED <<sim, current_bet, results, err>>

\* variant: wins is initialised once, outside the loop over the simulations
StartSessionCoreKeepsWins ==
    /\ pc = "sim"
    /\ sim < num_simulations
    /\ bankroll' = initial_bankroll
    /\ max_bankroll' = initial_bankroll
    /\ min_bankroll' = initial_bankroll
    /\ round_num' = 0
    /\ hist' = <<initial_bankroll>>
    /\ bets' = <<>>
    /\ outcomes' = <<>>
    /\ pc' = "round"
    /\ UNCHANGED <<sim, wins, current_bet, results, err>>

\* for sim in range(num_simulations): the session's locals are initialised
StartSessionCore ==
    /\ pc = "sim"
    /\ sim < num_simulations
    /\ bankroll' = initial_bankroll
    /\ max_bankroll' = initial_bankroll
    /\ min_bankroll' = initial_bankroll
    /\ wins' = 0
    /\ round_num' = 0
    /\ hist' = <<initial_bankroll>>
    /\ bets' = <<>>
    /\ outcomes' = <<>>
    /\ pc' = "round"
    /\ UNCHANGED <<sim, current_bet, results, err>>

\* one iteration of for round_num in range(num_rounds)
PlayRoundCore(draw) ==
    /\ pc = "round"
    /\ round_num < num_rounds
    /\ LET bet == AdjustBet(strategy, bet_amount, bankroll, wins, round_num)
           out == SimulateRound(bet, target_multiplier, bankroll, draw)
       IN  /\ current_bet' = bet
           /\ bankroll' = out.bankroll
           /\ wins' = IF out.won THEN wins + 1 ELSE wins
           /\ max_bankroll' = Max(max_bankroll, out.bankroll)
           /\ min_bankroll' = Min(min_bankroll, out.bankroll)
           /\ hist' = Append(hist, out.bankroll)
           /\ bets' = Append(bets, bet)
           /\ outcomes' = Append(outcomes, out.won)
    /\ round_num' = round_num + 1
    /\ UNCHANGED <<pc, sim, results, err>>

\* variant: roi is computed from the final balance instead of the net profit
SessionResultRoiOfBalance ==
    [simulation |-> sim + 1,
     final_balance |-> bankroll,
     total_wins |-> wins,
     total_losses |-> num_rounds - wins,
     win_rate |-> Frac(wins, num_rounds),
     net_profit |-> bankroll - initial_bankroll,
     max_drawdown |-> min_bankroll - max_bankroll,
     roi |-> Frac(bankroll * 100, initial_bankroll)]

SessionResult ==
    [simulation |-> sim + 1,
     final_balance |-> bankroll,
     total_wins |-> wins,
     total_losses |-> num_rounds - wins,
     win_rate |-> Frac(wins, num_rounds),
     net_profit |-> bankroll - initial_bankroll,
     max_drawdown |-> min_bankroll - max_bankroll,
     roi |-> Frac((bankroll - initial_bankroll) * 100, initial_bankroll)]

\* the rounds are over: results.append({...}); wins / num_rounds and
\* (...) / initial_bankroll raise ZeroDivisionError on a zero divisor
RecordSessionCore ==
    /\ pc = "round"
    /\ round_num >= num_rounds
    /\ IF num_rounds = 0 \/ initial_bankroll = 0
       THEN /\ pc' = "raised"
            /\ err' = "ZeroDivisionError"
            /\ UNCHANGED <<sim, results>>
       ELSE /\ results' = Append(results, SessionResult)
            /\ sim' = sim + 1
            /\ pc' = "sim"
            /\ UNCHANGED err
    /\ UNCHANGED <<round_num, bankroll, max_bankroll, min_bankroll, wins,
                   current_bet, hist, bets, outcomes>>

\* return pd.DataFrame(results)
ReturnResultsCore ==
    /\ pc = "sim"
    /\ sim >= num_simulations
    /\ pc' = "done"
    /\ UNCHANGED <<sim, round_num, bankroll, max_bankroll, min_bankroll, wins,
                   current_bet, results, err, hist, bets, outcomes>>

StartSession == StartSessionCore /\ UNCHANGED <<params, ruinvars, directvars>>
PlayRound == \E draw \in BOOLEAN : PlayRoundCore(draw) /\ UNCHANGED <<params, ruinvars, directvars>>
RecordSession == RecordSessionCore /\ UNCHANGED <<params, ruinvars, directvars>>
ReturnResults == ReturnResultsCore /\ UNCHANGED <<params, ruinvars, directvars>>

\* ------------------------------------------------- risk_of_ruin_simulation
RuinStartSessionCore ==
    /\ r_pc = "sim"
    /\ r_sim < num_simulations
    /\ r_bankroll' = initial_bankroll
    /\ crashed' = FALSE
    /\ r_round' = 0
    /\ r_pc' = "round"
    /\ UNCHANGED <<r_sim, ruins, r_result, r_err>>

\* one iteration of the inner loop that does not break
RuinRoundCore(draw) ==
    /\ r_pc = "round"
    /\ r_round < num_rounds
    /\ r_bankroll > 0
    /\ r_bankroll' = RuinRoundBankroll(bet_amount, target_multiplier, r_bankroll, draw)
    /\ r_round' = r_round + 1
    /\ UNCHANGED <<r_pc, r_sim, crashed, ruins, r_result, r_err>>

\* the inner loop ends (exhausted, or break on bankroll <= 0); ruins is updated
RuinEndSessionCore ==
    /\ r_pc = "round"
    /\ (r_round >= num_rounds \/ r_bankroll <= 0)
    /\ crashed' = (r_round < num_rounds /\ r_bankroll <= 0)
    /\ ruins' = IF r_bankroll <= 0 THEN ruins + 1 ELSE ruins
    /\ r_sim' = r_sim + 1
    /\ r_pc' = "sim"
    /\ UNCHANGED <<r_round, r_bankroll, r_result, r_err>>

\* return (ruins / num_simulations) * 100
RuinReturnCore ==
    /\ r_pc = "sim"
    /\ r_sim >= num_simulations
    /\ IF num_simulations = 0
       THEN /\ r_pc' = "raised"
            /\ r_err' = "ZeroDivisionError"
            /\ UNCHANGED r_result
       ELSE /\ r_pc' = "done"
            /\ r_result' = Frac(ruins * 100, num_simulations)
            /\ UNCHANGED r_err
    /\ UNCHANGED <<r_sim, r_round, r_bankroll, crashed, ruins>>

RuinStartSession == RuinStartSessionCore /\ UNCHANGED <<params, simvars, directvars>>
RuinRound == \E draw \in BOOLEAN : RuinRoundCore(draw) /\ UNCHANGED <<params, simvars, directvars>>
RuinEndSession == RuinEndSessionCore /\ UNCHANGED <<params, simvars, directvars>>
RuinReturn == RuinReturnCore /\ UNCHANGED <<params, simvars, directvars>>

\* ------------------------------------------ direct call of the bet selector
CallAdjustBet ==
    /\ pc = "call"
    /\ call = "adjust_bet_for_strategy"
    /\ current_bet' = AdjustBet(strategy, bet_amount, bankroll, wins, round_num)
    /\ pc' = "done"
    /\ UNCHANGED <<params, ruinvars, directvars, sim, round_num, bankroll,
                   max_bankroll, min_bankroll, wins, results, err, hist,
                   bets, outcomes>>

\* ------------------------------------------------ direct call of kelly_criterion
CallKelly ==
    /\ pc = "call"
    /\ call = "kelly_criterion"
    /\ ret' = [value |-> KellyCriterion(args.success_prob, args.win_multiplier)]
    /\ pc' = "done"
    /\ UNCHANGED <<params, ruinvars, args, sim, round_num, bankroll,
                   max_bankroll, min_bankroll, wins, current_bet, results, err,
                   hist, bets, outcomes>>

\* ------------------------------ direct call of calculate_crash_probability
CallCrashProbability ==
    /\ pc = "call"
    /\ call = "calculate_crash_probability"
    /\ ret' = [value |-> CrashProbability(args.house_edge, args.log2_multiplier)]
    /\ pc' = "done"
    /\ UNCHANGED <<params, ruinvars, args, sim, round_num, bankroll,
                   max_bankroll, min_bankroll, wins, current_bet, results, err,
                   hist, bets, outcomes>>

\* ------------------------------------------- direct call of simulate_round
CallSimulateRound ==
    /\ pc = "call"
    /\ call = "simulate_round"
    /\ LET crash_prob == CrashProbability(args.house_edge,
                                          Log2Milli(args.target_multiplier))
       IN  ret' = SimulateRound(args.bet_amount, args.target_multiplier,
                                args.current_bankroll,
                                args.next_random > crash_prob)
    /\ pc' = "done"
    /\ UNCHANGED <<params, ruinvars, args, sim, round_num, bankroll,
                   max_bankroll, min_bankroll, wins, current_bet, results, err,
                   hist, bets, outcomes>>

Next ==
    \/ CallCrashProbability
    \/ CallSimulateRound
    \/ CallKelly
    \/ StartSession
    \/ PlayRound
    \/ RecordSession
    \/ ReturnResults
    \/ RuinStartSession
    \/ RuinRound
    \/ RuinEndSession
    \/ RuinReturn
    \/ CallAdjustBet

Spec == Init /\ [][Next]_vars

\* ---------------------------------------------------------------------------
\* A Fixed Cash-out session of simulate_rounds and a session of
\* risk_of_ruin_simulation, called with the same arguments (as app.py does)
\* and fed the same draw in every round that both play.
PairCall == "simulate_rounds+risk_of_ruin_simulation"

InitPair ==
    /\ call = PairCall
    /\ num_simulations = 1
    /\ num_rounds \in NumRounds
    /\ bet_amount \in BetAmounts
    /\ target_multiplier \in Multipliers
    /\ initial_bankroll \in InitialBankrolls
    /\ strategy = FixedCashout
    /\ pc = "sim"
    /\ InitSimLocals
    /\ InitNoDirect
    /\ r_pc = "sim" /\ r_sim = 0 /\ r_round = 0 /\ r_bankroll = 0
    /\ crashed = FALSE /\ ruins = 0 /\ r_result = Frac(0, 1) /\ r_err = ""

PairStartSession ==
    StartSessionCore /\ RuinStartSessionCore /\ UNCHANGED <<params, directvars>>

\* both sessions play their next round on the same draw
PairRound ==
    \E draw \in BOOLEAN :
        PlayRoundCore(draw) /\ RuinRoundCore(draw) /\ UNCHANGED <<params, directvars>>

\* the risk-of-ruin session has left its loop; simulate_rounds plays on alone
SimOnlyRound ==
    /\ r_pc # "round" \/ r_bankroll <= 0
    /\ \E draw \in BOOLEAN :
        PlayRoundCore(draw) /\ UNCHANGED <<params, ruinvars, directvars>>

NextPair ==
    \/ PairStartSession
    \/ PairRound
    \/ SimOnlyRound
    \/ RecordSession
    \/ ReturnResults
    \/ RuinEndSession
    \/ RuinReturn

SpecPair == InitPair /\ [][NextPair]_vars

\* ================================================================= claims
InSession == call = "simulate_rounds" /\ Len(hist) >= 1
\* a round of the current session has been played; hist[Len(hist) - 1] is the
\* bankroll its bet was computed from
RoundPlayed == call = "simulate_rounds" /\ Len(hist) >= 2
BankrollBeforeLastRound == hist[Len(hist) - 1]

BetInRange(bet, bank) ==
    IF bank > 0 THEN 0 <= bet /\ bet <= bank ELSE bet = 0

\* C1: for every strategy and base_bet > 0, adjust_bet_for_strategy returns a
\* bet in [0, bankroll] when bankroll > 0 and 0 when bankroll <= 0, both on a
\* direct call with any bankroll, wins and round index and for the bet of
\* every round of every session of simulate_rounds.
C1_BetWithinBankroll ==
    bet_amount > 0 =>
        /\ (call = "adjust_bet_for_strategy" /\ pc = "done")
                => BetInRange(current_bet, bankroll)
        /\ RoundPlayed => BetInRange(current_bet, BankrollBeforeLastRound)

\* a progression strategy asked for more than the bankroll and was clamped
C1_Witness ==
    /\ RoundPlayed
    /\ strategy \in {Martingale, Fibonacci, DAlembert}
    /\ bet_amount > 0
    /\ round_num >= 2
    /\ current_bet = BankrollBeforeLastRound
    /\ current_bet > bet_amount

\* C2: in simulate_rounds with initial_bankroll > 0 and bet_amount > 0 the
\* bankroll is >= 0 after every round, whatever the strategy and the draws.
C2_BankrollNeverNegative ==
    (call = "simulate_rounds" /\ initial_bankroll > 0 /\ bet_amount > 0) =>
        /\ bankroll >= 0
        /\ \A i \in 1 .. Len(hist) : hist[i] >= 0

\* the bankroll was lost entirely and the session has rounds left to iterate
C2_Witness ==
    /\ call = "simulate_rounds" /\ initial_bankroll > 0 /\ bet_amount > 0
    /\ pc = "round" /\ round_num >= 1 /\ round_num < num_rounds
    /\ bankroll = 0


ValidParams ==
    /\ num_simulations > 0 /\ num_rounds > 0 /\ bet_amount > 0
    /\ initial_bankroll > 0 /\ target_multiplier > 1

\* the session whose rounds hist holds has been recorded as the last result
SessionRecorded ==
    /\ call = "simulate_rounds"
    /\ pc \in {"sim", "done"}
    /\ Len(results) >= 1
LastResult == results[Len(results)]

\* C3: once the bankroll of a Fixed Cash-out session is below bet_amount,
\* betting is skipped in every later round: the bankroll does not change
\* again, while the remaining rounds still count toward num_rounds.
C3_SkippedOnceShort ==
    (call = "simulate_rounds" /\ strategy = FixedCashout /\ ValidParams) =>
        /\ \A i \in 1 .. Len(hist) : \A j \in i .. Len(hist) :
               hist[i] < bet_amount => hist[j] = hist[i]
        /\ \A k \in 1 .. Len(results) :
               results[k].total_wins + results[k].total_losses = num_rounds

SetMax(S) == CHOOSE x \in S : \A y \in S : y <= x
SetMin(S) == CHOOSE x \in S : \A y \in S : x <= y
\* highest bankroll observed at or before round j (h[1] is the initial bankroll)
PeakUpTo(h, j) == SetMax({h[i] : i \in 1 .. j})
\* most negative peak-to-trough delta of the bankroll history h
PeakToTrough(h) == SetMin({h[j] - PeakUpTo(h, j) : j \in 1 .. Len(h)})
NonDecreasing(h) == \A i \in 1 .. Len(h) - 1 : h[i] <= h[i + 1]

\* C4: the recorded max_drawdown of a session equals its most negative
\* peak-to-trough delta: the minimum over the rounds j of the bankroll after
\* round j minus the highest bankroll observed at or before round j.
C4_DrawdownIsPeakToTrough ==
    (SessionRecorded /\ ValidParams) =>
        LastResult.max_drawdown = PeakToTrough(hist)

\* C5: throughout a session min_bankroll <= initial_bankroll <= max_bankroll
\* and min_bankroll <= bankroll <= max_bankroll, and every recorded
\* max_drawdown (min_bankroll - max_bankroll) is <= 0.
C5_DrawdownNonPositive ==
    InSession =>
        /\ min_bankroll <= initial_bankroll /\ initial_bankroll <= max_bankroll
        /\ min_bankroll <= bankroll /\ bankroll <= max_bankroll
        /\ min_bankroll - max_bankroll <= 0
        /\ \A k \in 1 .. Len(results) : results[k].max_drawdown <= 0

\* a recorded session whose bankroll went both above and below its start
C5_Witness ==
    /\ SessionRecorded
    /\ min_bankroll < initial_bankroll /\ initial_bankroll < max_bankroll
    /\ LastResult.max_drawdown < 0
    /\ LastResult.max_drawdown = min_bankroll - max_bankroll

\* C6: a session whose bankroll never falls from one round to the next is
\* recorded with max_drawdown exactly 0.
C6_NoDropNoDrawdown ==
    (SessionRecorded /\ ValidParams /\ NonDecreasing(hist)) =>
        LastResult.max_drawdown = 0

\* C7: simulate_rounds with num_rounds <= 0 never divides by zero for
\* win_rate, never returns a session result for num_rounds < 0, and returns
\* normally only for num_rounds = 0 with win_rate = 0.
C7_NonPositiveRoundsRejected ==
    (call = "simulate_rounds" /\ num_rounds <= 0 /\ num_simulations > 0
        /\ bet_amount > 0 /\ initial_bankroll > 0 /\ target_multiplier > 1) =>
        /\ ~(num_rounds = 0 /\ err = "ZeroDivisionError")
        /\ (num_rounds < 0 => results = <<>>)
        /\ \A k \in 1 .. Len(results) : results[k].win_rate.num = 0
        /\ (pc = "done" => num_rounds = 0)

\* C8: simulate_rounds rejects num_simulations <= 0, bet_amount <= 0,
\* initial_bankroll <= 0 and target_multiplier <= 1 without simulating a round
\* and without returning normally; risk_of_ruin_simulation rejects
\* num_simulations <= 0 without dividing by it.
C8_InvalidParamsRejected ==
    /\ (call = "simulate_rounds" /\ num_rounds > 0
            /\ (num_simulations <= 0 \/ bet_amount <= 0
                    \/ initial_bankroll <= 0 \/ target_multiplier <= 1))
        => (Len(hist) <= 1 /\ pc # "done")
    /\ (call = "risk_of_ruin_simulation" /\ num_simulations <= 0)
        => (r_err # "ZeroDivisionError" /\ r_pc # "done")

\* C9: simulate_rounds returns one result per simulation, in order, the
\* i-th (from 0) with simulation = i + 1, and every session starts from
\* bankroll = initial_bankroll and wins = 0.
C9_OneResultPerSimulation ==
    call = "simulate_rounds" =>
        /\ \A i \in 1 .. Len(results) : results[i].simulation = i
        /\ (pc = "done" => Len(results) = Max(num_simulations, 0))
        /\ (pc = "round" /\ round_num = 0) =>
               /\ bankroll = initial_bankroll /\ wins = 0
               /\ max_bankroll = initial_bankroll
               /\ min_bankroll = initial_bankroll

\* two sessions were returned, the second unaffected by the first one's wins
C9_Witness ==
    /\ call = "simulate_rounds" /\ pc = "done"
    /\ num_simulations = 2 /\ Len(results) = 2
    /\ results[1].total_wins > results[2].total_wins
    /\ results[1].final_balance # results[2].final_balance


\* C10: on the same arguments and draws a risk_of_ruin_simulation session
\* and a Fixed Cash-out session of simulate_rounds have the same bankroll
\* after every round until ruin, and the former is counted as ruined exactly
\* when the latter ends with bankroll <= 0.
C10_RuinMatchesFixedSession ==
    (call = PairCall /\ ValidParams) =>
        /\ (pc = "round" /\ r_pc = "round" /\ r_round = round_num) =>
               /\ (r_bankroll > 0 => bankroll = r_bankroll)
               /\ (r_bankroll <= 0 <=> bankroll <= 0)
        /\ (pc = "done" /\ r_pc = "done") =>
               (ruins = 1 <=> results[1].final_balance <= 0)

\* the part of C10 the code does keep: a bankroll that starts as a multiple
\* of bet_amount stays one, the clamp never bites and the two sessions agree
RuinMatchesOnMultiples ==
    (call = PairCall /\ ValidParams /\ initial_bankroll % bet_amount = 0) =>
        /\ (pc = "round" /\ r_pc = "round" /\ r_round = round_num) =>
               bankroll = r_bankroll
        /\ (pc = "done" /\ r_pc = "done") =>
               (ruins = 1 <=> results[1].final_balance <= 0)

\* number of rounds among the first n of the session that simulate_round
\* reported as won
WinsAmong(n) == Cardinality({i \in 1 .. n : outcomes[i]})

\* C12: for num_rounds > 0 every session result has total_wins +
\* total_losses = num_rounds, 0 <= total_wins <= num_rounds, win_rate =
\* total_wins / num_rounds, net_profit = final_balance - initial_bankroll and
\* roi = net_profit / initial_bankroll * 100, final_balance being the
\* bankroll after the last round.
C12_ResultIdentities ==
    (call = "simulate_rounds" /\ num_rounds > 0) =>
        /\ \A k \in 1 .. Len(results) :
              LET r == results[k]
              IN  /\ r.total_wins + r.total_losses = num_rounds
                  /\ 0 <= r.total_wins /\ r.total_wins <= num_rounds
                  /\ r.win_rate.num = r.total_wins
                  /\ r.win_rate.den = num_rounds
                  /\ r.net_profit = r.final_balance - initial_bankroll
                  /\ r.roi.num = r.net_profit * 100
                  /\ r.roi.den = initial_bankroll
        /\ SessionRecorded =>
              /\ LastResult.final_balance = hist[Len(hist)]
              /\ Len(hist) = num_rounds + 1
              /\ LastResult.total_wins = WinsAmong(Len(outcomes))

\* a recorded session with wins, losses and a non-zero net profit
C12_Witness ==
    /\ SessionRecorded /\ num_rounds >= 2
    /\ LastResult.total_wins > 0 /\ LastResult.total_losses > 0
    /\ LastResult.net_profit # 0

\* the Martingale stake before the clamp, in round r (from 1) of the session
MartingaleStake(r) == bet_amount * (2 ^ WinsAmong(r - 1))

DAlembertBet(base_bet, bank, w, r) ==
    LET target == base_bet * (1 + 2 * w - r)
        floor == Tenth(base_bet)
        wanted == IF target >= floor THEN target ELSE floor
    IN  IF wanted <= bank THEN wanted ELSE bank

C17_NoWinOnZeroBet ==
    (call = "simulate_rounds" /\ ValidParams) =>
        /\ \A r \in 1 .. Len(bets) :
              bets[r] = 0 => (~outcomes[r] /\ hist[r + 1] = 0)
        /\ wins = Cardinality({r \in 1 .. Len(bets) : outcomes[r] /\ bets[r] > 0})

\* the part of C17 the code does keep: once 0, the bankroll stays 0
ZeroBankrollStays ==
    (call = "simulate_rounds" /\ ValidParams) =>
        \A r \in 1 .. Len(bets) : hist[r] = 0 => (bets[r] = 0 /\ hist[r + 1] = 0)

\* C13: kelly_criterion always returns a value in [0, 1]; 0 whenever
\* success_prob <= 0 or win_multiplier <= 0; otherwise (p*b - q)/b clamped to
\* [0, 1] with b = win_multiplier, p = success_prob, q = 1 - p; so
\* kelly_criterion(0.5, 1.0) = 0.
C13_KellyInUnitInterval ==
    (call = "kelly_criterion" /\ pc = "done") =>
        LET p == args.success_prob
            b == args.win_multiplier
            f == ret.value
            \* p*b - q, over the denominator p.den * b.den
            edge == Frac(p.num * b.num - (p.den - p.num) * b.den, p.den * b.den)
        IN  /\ f.den > 0
            /\ RatLeq(RatZero, f) /\ RatLeq(f, RatOne)
            /\ (p.num <= 0 \/ b.num <= 0) => f.num = 0
            /\ (p.num > 0 /\ b.num > 0) =>
                  IF edge.num < 0 THEN f.num = 0
                  ELSE IF RatLess(b, edge) THEN RatEq(f, RatOne)
                  ELSE RatEq(RatMul(f, b), edge)
            /\ (RatEq(p, Frac(1, 2)) /\ RatEq(b, RatOne)) => f.num = 0

\* a favourable bet whose Kelly fraction lies strictly between 0 and 1
C13_Witness ==
    /\ call = "kelly_criterion" /\ pc = "done"
    /\ args.success_prob.num > 0 /\ args.win_multiplier.num > 0
    /\ RatLess(RatZero, ret.value) /\ RatLess(ret.value, RatOne)

\* C11: simulate_round returns (bankroll, false) and takes no random value
\* when bankroll < bet; otherwise it takes exactly one value u and returns
\* (bankroll + bet * (multiplier - 1), true) when u > crash_probability and
\* (bankroll - bet, false) otherwise.
C11_SimulateRoundOutcomes ==
    (call = "simulate_round" /\ pc = "done") =>
        LET bet == args.bet_amount
            mult == args.target_multiplier
            bank == args.current_bankroll
            crash_prob == CrashProbability(args.house_edge, Log2Milli(mult))
        IN  IF bank < bet
            THEN ret = [bankroll |-> bank, won |-> FALSE, draws |-> 0]
            ELSE /\ ret.draws = 1
                 /\ args.next_random > crash_prob =>
                       (ret.won /\ ret.bankroll = bank + bet * (mult - 1))
                 /\ args.next_random <= crash_prob =>
                       (~ret.won /\ ret.bankroll = bank - bet)

\* the whole bankroll was staked and won on a draw just above crash_prob
C11_Witness ==
    /\ call = "simulate_round" /\ pc = "done"
    /\ args.bet_amount > 0
    /\ args.current_bankroll = args.bet_amount
    /\ args.target_multiplier > 1
    /\ args.next_random =
          CrashProbability(args.house_edge, Log2Milli(args.target_multiplier)) + 1
    /\ ret.won /\ ret.draws = 1
    /\ ret.bankroll > args.current_bankroll

\* C14: calculate_crash_probability returns a value in [0, 1) for every
\* multiplier > 1 and exactly 0 for every multiplier <= 1; the house edge is
\* clamped to [0.1, 10.0] first, so the result for any house_edge is the
\* result for the clamped one, and no input raises an error.
C14_CrashProbabilityRange ==
    (call = "calculate_crash_probability" /\ pc = "done") =>
        /\ args.log2_multiplier > 0 => (0 <= ret.value /\ ret.value < ProbOne)
        /\ args.log2_multiplier <= 0 => ret.value = 0
        /\ ret.value =
              CrashProbability(ClampHouseEdge(args.house_edge), args.log2_multiplier)
        /\ err = ""

\* the part of C14 the code does keep: the result is in [0, 1], and below 1
\* for every multiplier up to 2^54
CrashProbabilityUpTo2Pow54 ==
    (call = "calculate_crash_probability" /\ pc = "done") =>
        /\ 0 <= ret.value /\ ret.value <= ProbOne
        /\ args.log2_multiplier <= ProbOne => ret.value < ProbOne
        /\ args.log2_multiplier <= 0 => ret.value = 0
        /\ ret.value =
              CrashProbability(ClampHouseEdge(args.house_edge), args.log2_multiplier)

====
